---- MODULE Spec2Model ----
(***************************************************************************)
(* askbot/models/repute.py: the badge records (BadgeData), the reputation  *)
(* ledger (Repute) and the two accessors over the ledger,                  *)
(* ReputeManager.get_reputation_by_upvoted_today and                       *)
(* Repute.get_explanation_snippet.                                         *)
(*                                                                         *)
(* Tables are the rows the ORM stores: the ledger is a bag of Repute rows  *)
(* (no method of the file reads a row's primary key), the badge table a    *)
(* sequence of BadgeData rows.  Time is counted in ticks, TicksPerDay of   *)
(* them to a calendar day.  A Python call's outcome is a record: the value *)
(* it returns, or the exception it raises.                                 *)
(***************************************************************************)
EXTENDS Integers, Sequences, FiniteSets, Bags, TLC

VARIABLES repute, now, badges, registry, last

vars == <<repute, now, badges, registry, last>>

(***************************************************************************)
(* Bounds.                                                                 *)
(***************************************************************************)
MaxEntries == 2
MaxBadges == 2
TicksPerDay == 2
MaxTime == 2

(***************************************************************************)
(* Python values.                                                          *)
(***************************************************************************)
None == "None"

Return(v) == [exc |-> "", value |-> v]

Raise(x) == [exc |-> x, value |-> None]

SqlNull == <<>>

SqlInt(v) == <<v>>

Users == {"u1", "u2"}

Questions == {"q1"}

(***************************************************************************)
(* Repute rows.                                                            *)
(***************************************************************************)
MODERATOR_TYPE == 10

rep_types == {1, -8}

\* The two counted codes and one that is not counted.
ReputationTypes == {1, -8, MODERATOR_TYPE}

Repute(user, positive, negative, question, reputed_at, reputation_type, comment) ==
    [user |-> user, positive |-> positive, negative |-> negative,
     question |-> question, reputed_at |-> reputed_at,
     reputation_type |-> reputation_type, reputation |-> 1,
     comment |-> comment]

\* Rows as the voting code writes them: a gain in positive or a loss (a
\* number below zero) in negative, any timestamp, the question or the
\* moderator's comment according to the type.
Deltas == {<<1, 0>>, <<0, -1>>}

TodayInputs ==
    { Repute(u, d[1], d[2],
             IF ty = MODERATOR_TYPE THEN None ELSE "q1",
             t, ty,
             IF ty = MODERATOR_TYPE THEN "reason" ELSE None) :
        u \in Users, d \in Deltas,
        t \in 0..MaxTime, ty \in ReputationTypes }

\* Rows as the schema admits them: both nullable columns free whatever the
\* type, a loss written with either sign, stamped by the column's default.
SnippetInputs ==
    { Repute(u, p, n, q, 0, ty, c) :
        u \in Users, p \in {0, 1}, n \in {-1, 0, 1},
        q \in Questions \cup {None},
        ty \in {1, MODERATOR_TYPE}, c \in {"reason", None} }

(***************************************************************************)
(* The clock: datetime.date.today(), and a date used as a datetime.        *)
(***************************************************************************)
date_today(t) == t \div TicksPerDay

midnight(d) == d * TicksPerDay

(***************************************************************************)
(* ReputeManager.get_reputation_by_upvoted_today                           *)
(***************************************************************************)
\* reputed_at__range=(lo, hi): SQL BETWEEN, both ends included.
in_range(t, lo, hi) == midnight(lo) <= t /\ t <= midnight(hi)

\* The filter without its user=user term.
filter_any_user(qs, user, today, tomorrow) ==
    LET keep == { e \in BagToSet(qs) :
                    /\ e.reputation_type \in rep_types
                    /\ in_range(e.reputed_at, today, tomorrow) }
    IN  [e \in keep |-> qs[e]]

\* self.filter(Q(reputation_type__in=rep_types), user=user,
\*             reputed_at__range=(today, tomorrow))
filter(qs, user, today, tomorrow) ==
    LET keep == { e \in BagToSet(qs) :
                    /\ e.reputation_type \in rep_types
                    /\ e.user = user
                    /\ in_range(e.reputed_at, today, tomorrow) }
    IN  [e \in keep |-> qs[e]]

RECURSIVE total(_, _)
total(qs, field) ==
    IF BagToSet(qs) = {} THEN 0
    ELSE LET e == CHOOSE x \in BagToSet(qs) : TRUE
         IN  e[field] * qs[e]
               + total([x \in BagToSet(qs) \ {e} |-> qs[x]], field)

\* models.Sum(field): NULL over no rows.
Sum(qs, field) ==
    IF BagToSet(qs) = {} THEN SqlNull ELSE SqlInt(total(qs, field))

aggregate(qs) ==
    [positive__sum |-> Sum(qs, "positive"),
     negative__sum |-> Sum(qs, "negative")]

\* The same without the test of neg: None + int raises TypeError.
treat_missing_neg_unchecked(sums) ==
    IF DOMAIN sums # {}
    THEN LET pos == IF sums.positive__sum = SqlNull THEN 0
                    ELSE sums.positive__sum[1]
         IN  IF sums.negative__sum = SqlNull THEN Raise("TypeError")
             ELSE Return(pos + sums.negative__sum[1])
    ELSE Return(0)

\* Lines 120-129: what is returned for an aggregate result.
treat_missing(sums) ==
    IF DOMAIN sums # {}
    THEN LET pos == IF sums.positive__sum = SqlNull THEN 0
                    ELSE sums.positive__sum[1]
             neg == IF sums.negative__sum = SqlNull THEN 0
                    ELSE sums.negative__sum[1]
         IN  Return(pos + neg)
    ELSE Return(0)

NoQuery == [queried |-> FALSE, qs |-> EmptyBag, sums |-> None]

\* The same without the test of user: the query runs for None too.
get_reputation_unguarded(ledger, t, user) ==
    LET today == date_today(t)
        tomorrow == today + 1
        qs == filter(ledger, user, today, tomorrow)
        sums == aggregate(qs)
    IN  [ret |-> treat_missing(sums),
         locals |-> [queried |-> TRUE, qs |-> qs, sums |-> sums]]

\* The call's outcome and what it did on the way: whether the ledger was
\* queried, the rows the filter kept, the aggregate result.
get_reputation_by_upvoted_today(ledger, t, user) ==
    IF user = None
    THEN [ret |-> Return(0), locals |-> NoQuery]
    ELSE LET today == date_today(t)
             tomorrow == today + 1
             qs == filter(ledger, user, today, tomorrow)
             sums == aggregate(qs)
         IN  [ret |-> treat_missing(sums),
              locals |-> [queried |-> TRUE, qs |-> qs, sums |-> sums]]

(***************************************************************************)
(* Repute.get_explanation_snippet                                          *)
(***************************************************************************)
abs(x) == IF x < 0 THEN -x ELSE x

\* A formatted text is its template and the values put into it.
username(user) == <<"username", user>>

thread_title(question) == <<"title", question>>

get_absolute_url(question) == <<"url", question>>

\* The same with delta >= 0 for delta > 0.
get_explanation_snippet_ge(self) ==
    IF self.reputation_type = 10
    THEN Return([template |-> "moderator_reason", reason |-> self.comment])
    ELSE LET delta == self.positive - self.negative
         IN  IF self.question = None
             THEN Raise("AttributeError")
             ELSE LET link_title_data ==
                        [points |-> abs(delta),
                         username |-> username(self.user),
                         question_title |-> thread_title(self.question)]
                      link_title ==
                        IF delta >= 0
                        THEN [template |-> "points_added",
                              data |-> link_title_data]
                        ELSE [template |-> "points_subtracted",
                              data |-> link_title_data]
                  IN  Return([template |-> "question_link",
                              url |-> get_absolute_url(self.question),
                              question_title |-> thread_title(self.question),
                              link_title |-> link_title])

get_explanation_snippet(self) ==
    IF self.reputation_type = 10
    THEN Return([template |-> "moderator_reason", reason |-> self.comment])
    ELSE LET delta == self.positive - self.negative
         IN  IF self.question = None
             THEN Raise("AttributeError")
             ELSE LET link_title_data ==
                        [points |-> abs(delta),
                         username |-> username(self.user),
                         question_title |-> thread_title(self.question)]
                      link_title ==
                        IF delta > 0
                        THEN [template |-> "points_added",
                              data |-> link_title_data]
                        ELSE [template |-> "points_subtracted",
                              data |-> link_title_data]
                  IN  Return([template |-> "question_link",
                              url |-> get_absolute_url(self.question),
                              question_title |-> thread_title(self.question),
                              link_title |-> link_title])

(***************************************************************************)
(* The static badge registry (askbot.models.badges) and BadgeData.         *)
(***************************************************************************)
Slugs == {"s1", "s2", "s3"}

BRONZE_BADGE == "bronze"

Levels == {"gold", BRONZE_BADGE}

\* badges.Badge(key, name, level, description)
Badge(key, name, level, description) ==
    [key |-> key, name |-> name, level |-> level,
     description |-> description, css_class |-> <<"css", level>>]

get_level_display(badge) == <<"display", badge.level>>

\* badges.get_badge(slug): the registry's badge, KeyError on a miss.
get_badge(reg, slug) ==
    IF slug \in DOMAIN reg THEN Return(reg[slug]) ELSE Raise("KeyError")

ShippedRegistry ==
    [s \in Slugs |->
       Badge(s, s, IF s = "s1" THEN "gold" ELSE BRONZE_BADGE, "text")]

BadgeData(slug) == [slug |-> slug, awarded_count |-> 0]

\* The same without the except clause: the KeyError goes to the caller.
_get_meta_data_no_except(reg, self) == get_badge(reg, self.slug)

_get_meta_data(reg, self) ==
    LET b == get_badge(reg, self.slug)
    IN  IF b.exc = "KeyError"
        THEN Return(Badge("", "", BRONZE_BADGE, None))
        ELSE b

\* The same with True returned from the except clause.
is_real_badge_always(reg, self) ==
    LET b == get_badge(reg, self.slug)
    IN  IF b.exc = "KeyError" THEN Return(TRUE)
        ELSE IF b.exc = "" THEN Return(TRUE) ELSE b

is_real_badge(reg, self) ==
    LET b == get_badge(reg, self.slug)
    IN  IF b.exc = "KeyError" THEN Return(FALSE)
        ELSE IF b.exc = "" THEN Return(TRUE) ELSE b

name(reg, self) ==
    LET m == _get_meta_data(reg, self)
    IN  IF m.exc = "" THEN Return(m.value.name) ELSE m

description(reg, self) ==
    LET m == _get_meta_data(reg, self)
    IN  IF m.exc = "" THEN Return(m.value.description) ELSE m

css_class(reg, self) ==
    LET m == _get_meta_data(reg, self)
    IN  IF m.exc = "" THEN Return(m.value.css_class) ELSE m

get_type_display(reg, self) ==
    LET m == _get_meta_data(reg, self)
    IN  IF m.exc = "" THEN Return(get_level_display(m.value)) ELSE m

MetaMethods ==
    {"_get_meta_data", "name", "description", "css_class", "get_type_display"}

BadgeMethods == MetaMethods \cup {"is_real_badge"}

call(method, reg, self) ==
    CASE method = "_get_meta_data" -> _get_meta_data(reg, self)
      [] method = "name" -> name(reg, self)
      [] method = "description" -> description(reg, self)
      [] method = "css_class" -> css_class(reg, self)
      [] method = "get_type_display" -> get_type_display(reg, self)
      [] method = "is_real_badge" -> is_real_badge(reg, self)

(***************************************************************************)
(* State machine.                                                          *)
(***************************************************************************)
\* The tables as a call finds them.
Tables == [repute |-> repute, badges |-> badges, registry |-> registry]

Idle ==
    [op |-> "idle", arg |-> None, ret |-> None, locals |-> None,
     before |-> None]

Init ==
    /\ repute = EmptyBag
    /\ now = 0
    /\ badges = <<>>
    /\ registry = ShippedRegistry
    /\ last = Idle

\* Repute(...).save()
CreateRepute(e) ==
    /\ BagCardinality(repute) < MaxEntries
    /\ repute' = repute (+) SetToBag({e})
    /\ last' = Idle
    /\ UNCHANGED <<now, badges, registry>>

\* entry.delete()
DeleteRepute(e) ==
    /\ BagIn(e, repute)
    /\ repute' = repute (-) SetToBag({e})
    /\ last' = Idle
    /\ UNCHANGED <<now, badges, registry>>

Tick ==
    /\ now < MaxTime
    /\ now' = now + 1
    /\ last' = Idle
    /\ UNCHANGED <<repute, badges, registry>>

UpvotedToday(user) ==
    /\ LET r == get_reputation_by_upvoted_today(repute, now, user)
       IN  last' = [op |-> "get_reputation_by_upvoted_today", arg |-> user,
                    ret |-> r.ret, locals |-> r.locals,
                    before |-> Tables]
    /\ UNCHANGED <<repute, now, badges, registry>>

ExplanationSnippet(e) ==
    /\ BagIn(e, repute)
    /\ last' = [op |-> "get_explanation_snippet", arg |-> e,
                ret |-> get_explanation_snippet(e), locals |-> None,
                before |-> Tables]
    /\ UNCHANGED <<repute, now, badges, registry>>

Next ==
    \/ \E e \in TodayInputs : CreateRepute(e)
    \/ \E e \in TodayInputs : DeleteRepute(e)
    \/ Tick
    \/ \E u \in Users \cup {None} : UpvotedToday(u)

Spec == Init /\ [][Next]_vars

NextSnippet ==
    \/ \E e \in SnippetInputs : CreateRepute(e)
    \/ \E e \in SnippetInputs : DeleteRepute(e)
    \/ \E e \in SnippetInputs : ExplanationSnippet(e)

SpecSnippet == Init /\ [][NextSnippet]_vars

slugs_of(rows) == { rows[i].slug : i \in 1..Len(rows) }

\* The same with no unique=True on slug: every save goes through.
CreateBadge_not_unique(slug) ==
    /\ Len(badges) < MaxBadges
    /\ badges' = Append(badges, BadgeData(slug))
    /\ last' = [op |-> "save", arg |-> [row |-> 0, slug |-> slug],
                ret |-> Return(None), locals |-> None,
                     before |-> Tables]
    /\ UNCHANGED <<repute, now, registry>>

\* BadgeData(slug=slug).save(): slug is unique=True.
CreateBadge(slug) ==
    IF slug \in slugs_of(badges)
    THEN /\ last' = [op |-> "save", arg |-> [row |-> 0, slug |-> slug],
                     ret |-> Raise("IntegrityError"), locals |-> None,
                     before |-> Tables]
         /\ UNCHANGED <<repute, now, badges, registry>>
    ELSE /\ Len(badges) < MaxBadges
         /\ badges' = Append(badges, BadgeData(slug))
         /\ last' = [op |-> "save", arg |-> [row |-> 0, slug |-> slug],
                     ret |-> Return(None), locals |-> None,
                     before |-> Tables]
         /\ UNCHANGED <<repute, now, registry>>

\* row.slug = slug; row.save()
UpdateSlug(i, slug) ==
    /\ i \in 1..Len(badges)
    /\ IF \E j \in 1..Len(badges) : j # i /\ badges[j].slug = slug
       THEN /\ last' = [op |-> "save", arg |-> [row |-> i, slug |-> slug],
                        ret |-> Raise("IntegrityError"), locals |-> None,
                     before |-> Tables]
            /\ UNCHANGED badges
       ELSE /\ badges' = [badges EXCEPT ![i].slug = slug]
            /\ last' = [op |-> "save", arg |-> [row |-> i, slug |-> slug],
                        ret |-> Return(None), locals |-> None,
                     before |-> Tables]
    /\ UNCHANGED <<repute, now, registry>>

\* The badge file is edited: a badge is taken out, rows stay.
RegistryRemove(slug) ==
    /\ slug \in DOMAIN registry
    /\ registry' = [s \in DOMAIN registry \ {slug} |-> registry[s]]
    /\ last' = Idle
    /\ UNCHANGED <<repute, now, badges>>

\* The badge file is edited: a badge is put in.
RegistryAdd(slug, level) ==
    /\ slug \notin DOMAIN registry
    /\ registry' = [s \in DOMAIN registry \cup {slug} |->
                      IF s = slug THEN Badge(slug, slug, level, "text")
                      ELSE registry[s]]
    /\ last' = Idle
    /\ UNCHANGED <<repute, now, badges>>

BadgeCall(i, method) ==
    /\ i \in 1..Len(badges)
    /\ last' = [op |-> method, arg |-> badges[i],
                ret |-> call(method, registry, badges[i]), locals |-> None,
                before |-> Tables]
    /\ UNCHANGED <<repute, now, badges, registry>>

NextBadge ==
    \/ \E s \in Slugs : CreateBadge(s)
    \/ \E i \in 1..MaxBadges, s \in Slugs : UpdateSlug(i, s)
    \/ \E s \in Slugs : RegistryRemove(s)
    \/ \E s \in Slugs, l \in Levels : RegistryAdd(s, l)
    \/ \E i \in 1..MaxBadges, m \in BadgeMethods : BadgeCall(i, m)

SpecBadge == Init /\ [][NextBadge]_vars

(***************************************************************************)
(* The same-day sum (Spec).                                                *)
(***************************************************************************)
IsToday == last.op = "get_reputation_by_upvoted_today"

TodayStart == (now \div TicksPerDay) * TicksPerDay

TomorrowStart == TodayStart + TicksPerDay

Days == 0..((MaxTime \div TicksPerDay) + 1)

\* The rows the sum is taken over: the user's, of a counted code, stamped
\* within the range the query is given, today 00:00 to tomorrow 00:00.
Counts(e, u) ==
    /\ e.user = u
    /\ e.reputation_type \in {1, -8}
    /\ TodayStart <= e.reputed_at
    /\ e.reputed_at <= TomorrowStart

RECURSIVE NetOf(_, _)
NetOf(rows, ledger) ==
    IF rows = {} THEN 0
    ELSE LET e == CHOOSE x \in rows : TRUE
         IN  ledger[e] * (e.positive + e.negative)
               + NetOf(rows \ {e}, ledger)

C2_OneCalendarDay ==
    (IsToday /\ last.arg # None) =>
        \A e \in BagToSet(repute) :
            (e.user = last.arg /\ e.reputation_type \in {1, -8}) =>
                /\ BagIn(e, last.locals.qs) <=>
                     (TodayStart <= e.reputed_at
                        /\ e.reputed_at < TomorrowStart)
                /\ BagIn(e, last.locals.qs) =>
                     \A d \in Days \ {date_today(now)} :
                        ~BagIn(e, filter(repute, last.arg, d, d + 1))

SumValues == {SqlNull} \cup {SqlInt(v) : v \in (0 - MaxEntries)..MaxEntries}

\* C3: the call returns an integer and raises nothing; when no row passes
\* the filter both aggregates are NULL and the result is 0; whatever the
\* aggregate result, a NULL sum is taken as 0: both NULL give 0, exactly
\* one NULL gives the other sum.
C3_MissingIsZero ==
    /\ IsToday =>
          /\ last.ret.exc = ""
          /\ last.ret.value \in Int
          /\ (last.arg # None /\ BagToSet(last.locals.qs) = {}) =>
                /\ last.locals.sums =
                     [positive__sum |-> SqlNull, negative__sum |-> SqlNull]
                /\ last.ret.value = 0
    /\ \A p \in SumValues, n \in SumValues :
          LET r == treat_missing([positive__sum |-> p, negative__sum |-> n])
          IN  /\ r.exc = ""
              /\ (p = SqlNull /\ n = SqlNull) => r.value = 0
              /\ (p = SqlNull /\ n # SqlNull) => r.value = n[1]
              /\ (p # SqlNull /\ n = SqlNull) => r.value = p[1]

C3_Witness ==
    /\ IsToday
    /\ last.arg # None
    /\ repute # EmptyBag
    /\ BagToSet(last.locals.qs) = {}
    /\ last.ret = Return(0)

\* C10: with None for the user the call returns 0 and runs no query; with
\* any user the ledger after the call is the ledger before it.
C10_NoneUserReadOnly ==
    IsToday =>
        /\ repute = last.before.repute
        /\ (last.arg = None) =>
              /\ last.ret = Return(0)
              /\ ~last.locals.queried

C10_Witness ==
    /\ IsToday
    /\ last.arg = None
    /\ last.ret = Return(0)
    /\ \E e \in BagToSet(repute) :
          e.reputation_type \in {1, -8} /\ e.reputed_at = now

(***************************************************************************)
(* The explanation text (SpecSnippet).                                     *)
(***************************************************************************)
IsSnippet == last.op = "get_explanation_snippet"

\* The form of a text: its templates, the numbers left out.
Form(r) ==
    IF r.exc # "" THEN <<"raises", r.exc>>
    ELSE IF r.value.template = "moderator_reason" THEN <<"moderator_reason">>
    ELSE <<r.value.template, r.value.link_title.template>>

SameSubject(e1, e2) ==
    /\ e1.reputation_type = e2.reputation_type
    /\ e1.user = e2.user
    /\ e1.question = e2.question

ModeratorText(e) == [template |-> "moderator_reason", reason |-> e.comment]

LinkText(e, verb, points) ==
    [template |-> "question_link",
     url |-> <<"url", e.question>>,
     question_title |-> <<"title", e.question>>,
     link_title |->
        [template |-> verb,
         data |-> [points |-> points,
                   username |-> <<"username", e.user>>,
                   question_title |-> <<"title", e.question>>]]]

C6_LedgerWellFormed ==
    /\ \A e \in BagToSet(repute) :
          /\ (e.reputation_type = MODERATOR_TYPE) => e.comment # None
          /\ (e.reputation_type # MODERATOR_TYPE) => e.question # None
    /\ IsSnippet => last.ret.exc = ""

\* What a row adds to the same-day sum of its user on its day.
Contribution(e) ==
    get_reputation_by_upvoted_today(
        SetToBag({e}), e.reputed_at, e.user).ret.value

\* C9: on a row of a counted code the text says points were added exactly
\* when the row's contribution to the same-day sum is above 0, and the
\* points shown are the absolute value of that contribution.
C9_SameSignConvention ==
    (IsSnippet /\ last.arg.reputation_type \in rep_types
       /\ last.ret.exc = "") =>
        LET c == Contribution(last.arg)
            title == last.ret.value.link_title
        IN  /\ (title.template = "points_added") <=> (c > 0)
            /\ (title.template = "points_subtracted") <=> ~(c > 0)
            /\ title.data.points = (IF c < 0 THEN 0 - c ELSE c)

(***************************************************************************)
(* Badge records and the registry (SpecBadge).                             *)
(***************************************************************************)
Placeholder ==
    [key |-> "", name |-> "", level |-> "bronze", description |-> None,
     css_class |-> <<"css", "bronze">>]

AttributeOf(method, badge) ==
    CASE method = "_get_meta_data" -> badge
      [] method = "name" -> badge.name
      [] method = "description" -> badge.description
      [] method = "css_class" -> badge.css_class
      [] method = "get_type_display" -> <<"display", badge.level>>

\* C4: a metadata lookup raises nothing; it answers from the registry's
\* badge when the row's slug is in the registry and from a placeholder of
\* bronze level when it is not; the rows and the registry are as before.
C4_LookupMissFallback ==
    (last.op \in MetaMethods) =>
        /\ last.ret.exc = ""
        /\ badges = last.before.badges
        /\ registry = last.before.registry
        /\ LET slug == last.arg.slug
           IN  last.ret.value =
                 AttributeOf(last.op,
                             IF slug \in DOMAIN last.before.registry
                             THEN last.before.registry[slug]
                             ELSE Placeholder)

C4_Witness ==
    /\ last.op = "get_type_display"
    /\ last.arg.slug \notin DOMAIN registry
    /\ \E i \in 1..Len(badges) : badges[i] = last.arg
    /\ last.ret = Return(<<"display", "bronze">>)

NoTwoAlike(rows) ==
    \A i \in 1..Len(rows), j \in 1..Len(rows) :
        i # j => rows[i].slug # rows[j].slug

\* C7: no two stored rows have the same slug; a save that would give a
\* second row a slug already stored raises IntegrityError and leaves the
\* rows as they were.
C7_SlugUnique ==
    /\ NoTwoAlike(badges)
    /\ (last.op = "save"
          /\ \E j \in 1..Len(last.before.badges) :
                /\ j # last.arg.row
                /\ last.before.badges[j].slug = last.arg.slug) =>
          /\ last.ret = Raise("IntegrityError")
          /\ badges = last.before.badges

C7_Witness ==
    /\ last.op = "save"
    /\ last.ret = Raise("IntegrityError")
    /\ Len(badges) = MaxBadges
    /\ last.arg.row # 0

\* C8: is_real_badge is true iff the row's slug is in the registry, and it
\* is false exactly when _get_meta_data answers with the bronze
\* placeholder; a row whose slug was taken out of the registry is not real.
C8_RealIffInRegistry ==
    /\ (last.op = "is_real_badge") =>
          last.ret = Return(last.arg.slug \in DOMAIN registry)
    /\ \A i \in 1..Len(badges) :
          LET real == is_real_badge(registry, badges[i])
              meta == _get_meta_data(registry, badges[i])
          IN  /\ real.exc = ""
              /\ real.value = (badges[i].slug \in DOMAIN registry)
              /\ (real.value = FALSE) <=> (meta = Return(Placeholder))

C8_Witness ==
    /\ last.op = "is_real_badge"
    /\ last.ret = Return(FALSE)
    /\ \E i \in 1..Len(badges) : badges[i] = last.arg
    /\ last.arg.slug \in DOMAIN ShippedRegistry
    /\ last.arg.slug \notin DOMAIN registry

====
